---- MODULE Spec2Model ----
(***************************************************************************)
(* A model of dumb-pelican-client: credential selection                    *)
(* (credentials.rs), origin discovery (pelican.rs), the transfer           *)
(* (transfer.rs) and the process entry point (main.rs).                    *)
(*                                                                         *)
(* A Rust string is a sequence of tokens.  A token is one character ("/",  *)
(* ":", ",", "a", ...) or a run of characters the code never looks inside  *)
(* ("osdf://", "storage.read", "http:").  split_once, starts_with and      *)
(* split work on these sequences the way the str methods work on          *)
(* characters.                                                             *)
(***************************************************************************)
EXTENDS Integers, Sequences, FiniteSets, TLC

VARIABLES
    pc,               \* position of the process in main / run / execute
    creds,            \* Credentials(Vec<Credential>)
    url,              \* Transfer.url
    mode,             \* Transfer.mode
    retries,          \* Cli.retries
    now,              \* the clock value get_correct_cred read (-1: not read)
    memo,             \* the #[memoize] cache of get_director_info
    discovery_calls,  \* outbound discovery GETs issued so far, per path
    resolves,         \* the paths get_director_info was called with, in order
    info,             \* Result<PelicanInfo> of PelicanInfo::from_url
    cred,             \* Result<&Credential> of get_correct_cred
    origin_url,       \* Result<String> of get_origin_url, with its suffix
    file,             \* the local file Transfer.filename names
    file_ops,         \* File::create / File::open calls made on it so far
    transfer_calls,   \* GET / PUT requests sent to an origin so far
    response,         \* the origin's response to the transfer request
    result,           \* Result<()> of run
    exit_code         \* exit status of the process (-1: still running)

vars == <<pc, creds, url, mode, retries, now, memo, discovery_calls, resolves,
          info, cred, origin_url, file, file_ops, transfer_calls, response,
          result, exit_code>>

---------------------------------------------------------------------------
(* Bounds of the model.                                                    *)

MaxCreds == 3        \* credentials in a store
MaxTime == 2         \* the clock ranges over 0..MaxTime
MaxRetries == 2      \* --retries ranges over 0..MaxRetries
MaxResolves == 3     \* from_url calls made in one process
MaxRunCreds == 1     \* credential files from_condor finds in a run
MaxSuffixLen == 4    \* tokens of a request url after the namespace prefix
MaxHeaderLen == 6    \* tokens in a Link / x-pelican-namespace header value

---------------------------------------------------------------------------
(* str helpers.                                                            *)

Min(S) == CHOOSE x \in S : \A y \in S : x <= y

\* str::starts_with
StartsWith(s, p) ==
    /\ Len(p) <= Len(s)
    /\ SubSeq(s, 1, Len(p)) = p

\* str::split_once(pat): split at the FIRST occurrence of pat, wherever it is
SplitOnce(s, pat) ==
    LET occ == {i \in 1..(Len(s) - Len(pat) + 1) :
                    SubSeq(s, i, i + Len(pat) - 1) = pat}
    IN  IF occ = {}
        THEN [found |-> FALSE, before |-> <<>>, after |-> <<>>]
        ELSE LET i == Min(occ)
             IN  [found  |-> TRUE,
                  before |-> SubSeq(s, 1, i - 1),
                  after  |-> SubSeq(s, i + Len(pat), Len(s))]

\* Result values: Ok(v) / Err(kind(msg)); status is the HTTP status a
\* TransferError message carries (0: none)
Ok(v) == [ok |-> TRUE, val |-> v, kind |-> "", msg |-> "", status |-> 0]
ErrStatus(k, m, st) == [ok |-> FALSE, val |-> <<>>, kind |-> k, msg |-> m, status |-> st]
Err(k, m) == ErrStatus(k, m, 0)
NoResult == Err("none", "")

---------------------------------------------------------------------------
(* credentials.rs                                                          *)

READ == <<"storage.read">>
CREATE == <<"storage.create">>
MODIFY == <<"storage.modify">>

\* match transfer.mode { Get => ..., Put => ... }
ScopeOptions(verb) ==
    IF verb = "Get" THEN {READ} ELSE {CREATE, MODIFY}

\* ScopeMatches without scope_options.contains(&pre): the fault C3 excludes
ScopeMatchesAnyAction(scope, verb, path) ==
    LET sp == SplitOnce(scope, <<":">>)
    IN  sp.found /\ StartsWith(path, sp.after)

\* if let Some((pre, post)) = scope.split_once(':')
\*     && scope_options.contains(&pre) && path.starts_with(post)
ScopeMatches(scope, verb, path) ==
    LET sp == SplitOnce(scope, <<":">>)
    IN  sp.found /\ sp.before \in ScopeOptions(verb) /\ StartsWith(path, sp.after)

\* IsExpired with < for <=: the fault C1 excludes
IsExpiredStrict(c, t) == c.expires_at < t

\* if cred.expires_at <= now
IsExpired(c, t) == c.expires_at <= t

\* KeepExpired keeping the first expired match: the fault C2 excludes
KeepFirstExpired(expired_cred, i) == IF expired_cred = 0 THEN i ELSE expired_cred

\* expired_cred = Some(cred): every expired match overwrites the one before
KeepExpired(expired_cred, i) == i

\* Credentials::get_correct_cred.  The credential returned is named by its
\* index in the store (the code returns a reference into the Vec); 0 in
\* expired_cred is None.  t is now, the f32 as_secs_f32 returned; expires_at
\* is an f32 too, and the two are compared as the code compares them.
GetCorrectCred(store, t_url, t_mode, prefix, t) ==
    LET sp == SplitOnce(t_url, prefix)
        path == sp.after
        RECURSIVE Loop(_, _, _)
        Loop(i, j, expired_cred) ==
            IF i > Len(store)
            THEN IF expired_cred # 0
                 THEN Ok(expired_cred)
                 ELSE Err("CredentialsError", "No matching credentials for url")
            ELSE IF j > Len(store[i].scope)
            THEN Loop(i + 1, 1, expired_cred)
            ELSE IF ScopeMatches(store[i].scope[j], t_mode, path)
            THEN IF IsExpired(store[i], t)
                 THEN Loop(i, j + 1, KeepExpired(expired_cred, i))
                 ELSE Ok(i)
            ELSE Loop(i, j + 1, expired_cred)
    IN  IF ~sp.found
        THEN Err("CredentialsError", "url does not match OSDF prefix")
        ELSE Loop(1, 1, 0)

---------------------------------------------------------------------------
(* pelican.rs                                                              *)

\* str::split(c): the segments between the occurrences of c, at least one
RECURSIVE Split(_, _)
Split(s, c) ==
    LET sp == SplitOnce(s, <<c>>)
    IN  IF ~sp.found THEN <<s>> ELSE <<sp.before>> \o Split(sp.after, c)

\* HandleLinkHeader passing over a segment without '<' or '>' instead of
\* failing: the fault C13 excludes
HandleLinkHeaderSkipBad(header) ==
    LET lines == Split(header, ",")
        RECURSIVE Loop(_, _)
        Loop(i, ret) ==
            IF i > Len(lines) THEN Ok(ret)
            ELSE LET lt == SplitOnce(lines[i], <<"<">>)
                     gt == SplitOnce(lt.after, <<">">>)
                 IN  IF ~lt.found \/ ~gt.found
                     THEN Loop(i + 1, ret)
                     ELSE Loop(i + 1, Append(ret, gt.before))
    IN  Loop(1, <<>>)

\* handle_link_header: per comma segment, the text between the first '<'
\* and the first '>' after it; the first segment without them is an error
HandleLinkHeader(header) ==
    LET lines == Split(header, ",")
        RECURSIVE Loop(_, _)
        Loop(i, ret) ==
            IF i > Len(lines) THEN Ok(ret)
            ELSE LET lt == SplitOnce(lines[i], <<"<">>)
                     gt == SplitOnce(lt.after, <<">">>)
                 IN  IF ~lt.found \/ ~gt.found
                     THEN Err("PelicanError", "Error parsing link header")
                     ELSE Loop(i + 1, Append(ret, gt.before))
    IN  Loop(1, <<>>)

\* handle_namespace_header: the text before the first ',' (a header with no
\* ',' is an error), and in it the text after the first '='
HandleNamespaceHeader(header) ==
    LET comma == SplitOnce(header, <<",">>)
        eq == SplitOnce(comma.before, <<"=">>)
    IN  IF ~comma.found \/ ~eq.found
        THEN Err("PelicanError", "Error parsing x-pelican-namespace header")
        ELSE Ok(eq.after)

OSDF_URL_PREFIX == <<"osdf://">>

\* A header of a HeaderMap: absent, or a value
NoHeader == [present |-> FALSE, value |-> <<>>]
Header(v) == [present |-> TRUE, value |-> v]

\* HeaderValue::to_str: fails on a value with a byte that is not visible ASCII
ToStr(v) ==
    IF \E i \in 1..Len(v) : v[i] = "\\xff"
    THEN Err("ToStrError", "failed to convert header to a str")
    ELSE Ok(v)

\* PelicanInfo::from_url, from the headers get_director_info returned on
InfoFromHeaders(headers) ==
    IF ~headers.link.present
    THEN Err("PelicanError", "No link header when locating origins")
    ELSE LET links == ToStr(headers.link.value)
             origins == HandleLinkHeader(links.val)
         IN  IF ~links.ok THEN links
             ELSE IF ~origins.ok THEN origins
             ELSE IF ~headers.ns.present
             THEN Err("PelicanError", "No link header when locating origins")
             ELSE LET parts == ToStr(headers.ns.value)
                      namespace == HandleNamespaceHeader(parts.val)
                  IN  IF ~parts.ok THEN parts
                      ELSE IF ~namespace.ok THEN namespace
                      ELSE Ok([origins     |-> origins.val,
                               osdf_prefix |-> OSDF_URL_PREFIX \o namespace.val])

\* url.split_once(OSDF_URL_PREFIX): the discovery path of a url
DiscoveryPath(u) == SplitOnce(u, OSDF_URL_PREFIX)

\* Cached with the cache never hit: the fault C6 excludes
NeverCached(m, path) == FALSE

\* The memoize cache: a function from the paths resolved so far
Cached(m, path) == path \in DOMAIN m
Remember(m, path, v) ==
    [p \in DOMAIN m \cup {path} |-> IF p = path THEN v ELSE m[p]]
Count(calls, path) == IF path \in DOMAIN calls THEN calls[path] ELSE 0

\* PelicanInfo::choose_origin: the origins choose() may return
ChooseOrigin(pinfo) == {pinfo.origins[i] : i \in 1..Len(pinfo.origins)}

---------------------------------------------------------------------------
(* transfer.rs                                                             *)

\* The tokens of s before its first "/" (all of s when it has none)
UpToSlash(s) ==
    LET sp == SplitOnce(s, <<"/">>) IN IF sp.found THEN sp.before ELSE s

\* s without its leading "/" tokens
RECURSIVE SkipSlashes(_)
SkipSlashes(s) ==
    IF s # <<>> /\ Head(s) = "/" THEN SkipSlashes(Tail(s)) ELSE s

\* s up to and including its last "/" (empty when it has none)
RECURSIVE DropLastSegment(_)
DropLastSegment(s) ==
    IF s = <<>> \/ s[Len(s)] = "/" THEN s
    ELSE DropLastSegment(SubSeq(s, 1, Len(s) - 1))

\* Url::parse of an origin base: scheme "http:", "//", a host that is not
\* empty, then the path, which is "/" when the string ends after the host
UrlParse(s) ==
    LET rest == SkipSlashes(Tail(s))
        host == UpToSlash(rest)
        path == SubSeq(rest, Len(host) + 1, Len(rest))
    IN  IF s = <<>> \/ Head(s) # "http:"
        THEN Err("url::ParseError", "relative URL without a base")
        ELSE IF host = <<>>
        THEN Err("url::ParseError", "empty host")
        ELSE Ok([scheme |-> Head(s), host |-> host,
                 path |-> IF path = <<>> THEN <<"/">> ELSE path])

\* Url::to_string
UrlToString(u) == <<u.scheme, "/", "/">> \o u.host \o u.path

\* Url::join(suffix): the reference suffix resolved against the base: an
\* empty reference is the base, a reference with a scheme is a URL of its
\* own, "//..." replaces the authority, "/..." replaces the path and
\* anything else replaces the last segment of the base's path
UrlJoin(base, suffix) ==
    IF suffix = <<>> THEN Ok(base)
    ELSE IF Head(suffix) = "osdf://" THEN Ok([scheme |-> "osdf:", host |-> <<>>,
                                              path |-> Tail(suffix)])
    ELSE IF StartsWith(suffix, <<"/", "/">>)
    THEN LET rest == SkipSlashes(suffix)
             host == UpToSlash(rest)
             path == SubSeq(rest, Len(host) + 1, Len(rest))
         IN  IF host = <<>>
             THEN Err("url::ParseError", "empty host")
             ELSE Ok([scheme |-> base.scheme, host |-> host,
                      path |-> IF path = <<>> THEN <<"/">> ELSE path])
    ELSE IF Head(suffix) = "/"
    THEN Ok([base EXCEPT !.path = suffix])
    ELSE Ok([base EXCEPT !.path = DropLastSegment(base.path) \o suffix])

\* Transfer::get_origin_url, for the origin choose_origin picked.  The
\* value carries the suffix the url was split into beside the final url.
GetOriginUrl(t_url, prefix, origin) ==
    LET sp == SplitOnce(t_url, prefix)
        parsed == UrlParse(origin)
        joined == UrlJoin(parsed.val, sp.after)
    IN  IF ~sp.found
        THEN Err("TransferError", "url does not match OSDF prefix")
        ELSE IF ~parsed.ok THEN parsed
        ELSE IF ~joined.ok THEN joined
        ELSE Ok([final_url |-> UrlToString(joined.val), suffix |-> sp.after])

\* StatusCode::is_success
IsSuccess(status) == 200 <= status /\ status <= 299

---------------------------------------------------------------------------
(* The inputs the model draws from.                                        *)

Verbs == {"Get", "Put"}

\* Credential.scope values: the test's pair of scopes, a longer read prefix,
\* a modify scope, a create scope with an empty prefix, an action the
\* client does not know and a scope string without ':'
ScopeLists ==
    { << READ \o <<":", "/", "a">>, MODIFY \o <<":", "/", "b">> >>,
      << READ \o <<":", "/", "a", "/", "b">> >>,
      << <<"storage.stage", ":", "/", "a">>, CREATE \o <<":">> >>,
      << READ \o <<"/", "a">>, MODIFY \o <<":", "/", "a">> >> }

\* Credential.expires_at values, inside the range of the clock
Expiries == {1, 2}

Credentials == [access_token : {"token"}, expires_at : Expiries, scope : ScopeLists]

Stores(n) == UNION {[1..k -> Credentials] : k \in 0..n}

\* The PelicanInfo the selection is tried against, built as the tests build it
SelectPrefix == OSDF_URL_PREFIX \o <<"/", "n">>
SelectInfo == [origins |-> << <<"http:", "/", "/", "o">> >>, osdf_prefix |-> SelectPrefix]

\* Request urls: under the prefix (paths /a, /a/b, /ab, /b), the prefix at a
\* later position, and no prefix at all
SelectUrls ==
    { SelectPrefix \o <<"/", "a">>,
      SelectPrefix \o <<"/", "a", "/", "b">>,
      SelectPrefix \o <<"/", "a", "b">>,
      SelectPrefix \o <<"/", "b">>,
      <<"x">> \o SelectPrefix \o <<"/", "a">>,
      OSDF_URL_PREFIX \o <<"/", "a">> }

NoResponse == [status |-> 0, body |-> <<>>]
NoFile == [exists |-> FALSE, content |-> <<>>]

---------------------------------------------------------------------------
(* get_correct_cred on its own: a store, a request and a clock value.      *)

InitSelect ==
    /\ pc = "select_call"
    /\ creds \in Stores(MaxCreds)
    /\ url \in SelectUrls
    /\ mode \in Verbs
    /\ info = Ok(SelectInfo)
    /\ retries = 1
    /\ now = -1
    /\ memo = <<>>
    /\ discovery_calls = <<>>
    /\ resolves = <<>>
    /\ cred = NoResult
    /\ origin_url = NoResult
    /\ file = NoFile
    /\ file_ops = {}
    /\ transfer_calls = 0
    /\ response = NoResponse
    /\ result = NoResult
    /\ exit_code = -1

SelectCall ==
    /\ pc = "select_call"
    /\ \E t \in 0..MaxTime :
        /\ now' = t
        /\ cred' = GetCorrectCred(creds, url, mode, info.val.osdf_prefix, t)
    /\ pc' = "select_returned"
    /\ UNCHANGED <<creds, url, mode, retries, memo, discovery_calls, resolves,
                   info, origin_url, file, file_ops, transfer_calls, response,
                   result, exit_code>>

NextSelect == SelectCall

SpecSelect == InitSelect /\ [][NextSelect]_vars

---------------------------------------------------------------------------
(* One run of the program: main, run, PelicanInfo::from_url, execute.      *)

\* Request urls of a run: two under the namespace /n, one with the scheme
\* prefix at a later position, one under another namespace, one that is no
\* osdf url
RunUrls ==
    { SelectPrefix \o <<"/", "a">>,
      SelectPrefix \o <<"/", "b">>,
      <<"x">> \o SelectPrefix \o <<"/", "a">>,
      OSDF_URL_PREFIX \o <<"/", "m", "/", "a">>,
      <<"/", "n", "/", "a">> }

ORIGIN == <<"http:", "/", "/", "o">>

\* Link header values the director may send: one origin, two origins (the
\* second with a trailing slash and a parameter), an entry without '>', a
\* value that is not ASCII; or no Link header
LinkHeaders ==
    { Header(<<"<">> \o ORIGIN \o <<">">>),
      Header(<<"<">> \o ORIGIN \o <<">", ";", "rel", ",", "<">> \o ORIGIN \o <<"/", ">">>),
      Header(<<"<">> \o ORIGIN),
      Header(<<"<", "\\xff", ">">>),
      NoHeader }

\* x-pelican-namespace values: two entries, one entry, a first entry
\* without '='; or no such header
NamespaceHeaders ==
    { Header(<<"namespace", "=", "/", "n", ",", "k", "=", "v">>),
      Header(<<"namespace", "=", "/", "n">>),
      Header(<<"/", "n", ",", "k", "=", "v">>),
      NoHeader }

NoHeaders == [link |-> NoHeader, ns |-> NoHeader]

\* What the discovery GET may end in: no response at all (status 0), a
\* redirect carrying the headers, or an error status
DirectorResponses ==
    {[status |-> 0, headers |-> NoHeaders], [status |-> 404, headers |-> NoHeaders]}
        \cup [status : {307}, headers : [link : LinkHeaders, ns : NamespaceHeaders]]

\* What the transfer request may end in: no response (status 0), or a
\* status and a body
BODY == <<"d1", "d2">>
OriginResponses ==
    {[status |-> 0, body |-> <<>>]} \cup [status : {200, 301, 404}, body : {BODY}]

\* The local file before the run: absent, or holding earlier content
InitialFiles == {NoFile, [exists |-> TRUE, content |-> <<"old">>]}

\* Outcomes of Credentials::from_condor other than a store
CondorErrors ==
    { Err("CredentialsError", "_CONDOR_CREDS env variable not set"),
      Err("CredentialsError", "Error reading _CONDOR_CREDS dir"),
      Err("io::Error", "read_to_string"),
      Err("serde_json::Error", "from_str") }

\* Exit status of a process whose main thread panicked: 101 when the panic
\* unwinds, 134 (SIGABRT) when the build aborts on panic
PanicExitCodes == {101, 134}

EXIT_SUCCESS == 0
EXIT_FAILURE == 1

\* The ? operator: go on with an Ok, return from run with an Err
Try(r, next) == IF r.ok THEN next ELSE "exit"

Init ==
    /\ pc = "from_condor"
    /\ creds = <<>>
    /\ url \in RunUrls
    /\ mode \in Verbs
    /\ retries \in 0..MaxRetries
    /\ now = -1
    /\ memo = <<>>
    /\ discovery_calls = <<>>
    /\ resolves = <<>>
    /\ info = NoResult
    /\ cred = NoResult
    /\ origin_url = NoResult
    /\ file \in InitialFiles
    /\ file_ops = {}
    /\ transfer_calls = 0
    /\ response = NoResponse
    /\ result = NoResult
    /\ exit_code = -1

\* run: let creds = credentials::Credentials::from_condor()?;
FromCondor ==
    /\ pc = "from_condor"
    /\ \/ \E st \in Stores(MaxRunCreds) :
            /\ creds' = st
            /\ pc' = "resolve"
            /\ UNCHANGED result
       \/ \E e \in CondorErrors :
            /\ result' = e
            /\ pc' = "exit"
            /\ UNCHANGED creds
    /\ UNCHANGED <<url, mode, retries, now, memo, discovery_calls, resolves, info,
                   cred, origin_url, file, file_ops, transfer_calls, response,
                   exit_code>>

\* get_director_info under #[memoize]: a path in the cache is answered from
\* it; otherwise the GET is sent, and its headers are cached unless the
\* function panics (no response, or a status >= 400)
GetDirectorInfo(path) ==
    IF Cached(memo, path)
    THEN /\ info' = InfoFromHeaders(memo[path])
         /\ UNCHANGED <<memo, discovery_calls>>
    ELSE /\ discovery_calls' =
                Remember(discovery_calls, path, Count(discovery_calls, path) + 1)
         /\ \E r \in DirectorResponses :
                IF r.status = 0
                THEN /\ info' = Err("panic", "Cannot contact Pelican director")
                     /\ UNCHANGED memo
                ELSE IF r.status >= 400
                THEN /\ info' = Err("panic", "Error finding Pelican Origin")
                     /\ UNCHANGED memo
                ELSE /\ memo' = Remember(memo, path, r.headers)
                     /\ info' = InfoFromHeaders(r.headers)

\* PelicanInfo::from_url(u)
FromUrl(u) ==
    LET sp == DiscoveryPath(u)
    IN  IF ~sp.found
        THEN /\ info' = Err("PelicanError", "url is not an OSDF url")
             /\ UNCHANGED <<memo, discovery_calls, resolves>>
        ELSE /\ resolves' = Append(resolves, sp.after)
             /\ GetDirectorInfo(sp.after)

\* run: let origin = pelican::PelicanInfo::from_url(transfer.url.as_str())?;
Resolve ==
    /\ pc = "resolve"
    /\ FromUrl(url)
    /\ pc' = IF info'.kind = "panic" THEN "panicked" ELSE Try(info', "select")
    /\ result' = IF info'.ok \/ info'.kind = "panic" THEN result ELSE info'
    /\ UNCHANGED <<creds, url, mode, retries, now, cred, origin_url, file,
                   file_ops, transfer_calls, response, exit_code>>

\* AfterSelect without the ?: the fault C4 excludes
AfterSelectUnchecked(r) == "rewrite"

\* execute: let cred = creds.get_correct_cred(self, origin)?;
AfterSelect(r) == Try(r, "rewrite")

SelectCredential ==
    /\ pc = "select"
    /\ \E t \in 0..MaxTime :
        /\ now' = t
        /\ cred' = GetCorrectCred(creds, url, mode, info.val.osdf_prefix, t)
    /\ pc' = AfterSelect(cred')
    /\ result' = IF cred'.ok THEN result ELSE cred'
    /\ UNCHANGED <<creds, url, mode, retries, memo, discovery_calls, resolves,
                   info, origin_url, file, file_ops, transfer_calls, response,
                   exit_code>>

\* execute: let final_url = self.get_origin_url(origin)?;
RewriteUrl ==
    /\ pc = "rewrite"
    /\ IF ChooseOrigin(info.val) = {}
       THEN origin_url' = Err("PelicanError", "No origins available")
       ELSE \E o \in ChooseOrigin(info.val) :
                origin_url' = GetOriginUrl(url, info.val.osdf_prefix, o)
    /\ pc' = Try(origin_url', "send")
    /\ result' = IF origin_url'.ok THEN result ELSE origin_url'
    /\ UNCHANGED <<creds, url, mode, retries, now, memo, discovery_calls,
                   resolves, info, cred, file, file_ops, transfer_calls,
                   response, exit_code>>

\* do_auth(http_client.get / put (final_url)).send()?
SendRequest ==
    /\ transfer_calls' = transfer_calls + 1
    /\ \E r \in OriginResponses :
        IF r.status = 0
        THEN /\ result' = Err("reqwest::Error", "send")
             /\ pc' = "exit"
             /\ UNCHANGED response
        ELSE /\ response' = r
             /\ pc' = "validate"
             /\ UNCHANGED result

\* execute, Verb::Get: File::create(&self.filename)? and the GET;
\* Verb::Put: File::open(&self.filename)? and the PUT of its content.
\* File::create truncates; either call may fail, and open fails on a file
\* that does not exist.
Send ==
    /\ pc = "send"
    /\ file_ops' = file_ops \cup {IF mode = "Get" THEN "create" ELSE "open"}
    /\ \/ /\ mode = "Get"
          /\ file' = [exists |-> TRUE, content |-> <<>>]
          /\ SendRequest
       \/ /\ mode = "Put"
          /\ file.exists
          /\ UNCHANGED file
          /\ SendRequest
       \/ /\ result' = Err("io::Error", IF mode = "Get" THEN "create" ELSE "open")
          /\ pc' = "exit"
          /\ UNCHANGED <<file, transfer_calls, response>>
    /\ UNCHANGED <<creds, url, mode, retries, now, memo, discovery_calls,
                   resolves, info, cred, origin_url, exit_code>>

\* ShouldCopy without the status check: the fault C5 excludes
ShouldCopyAlways(r) == TRUE

\* execute, Verb::Get: if !ret.status().is_success() { return Err(..) }
\* stands before ret.copy_to(&mut file)
ShouldCopy(r) == IsSuccess(r.status)

\* OnTransferFailure sending again while cli.retries allows: the fault C7
\* excludes
OnTransferFailureRetry == IF transfer_calls <= retries THEN "send" ELSE "exit"

\* execute: a failed transfer returns the error; nothing reads cli.retries
OnTransferFailure == "exit"

\* execute after send: for a Get the status check and copy_to (which
\* writes the whole body, or fails having written less), then for both
\* verbs the check of result.status()
Validate ==
    /\ pc = "validate"
    /\ \/ /\ mode = "Get"
          /\ ~ShouldCopy(response)
          /\ result' = ErrStatus("TransferError", "Error getting file", response.status)
          /\ pc' = OnTransferFailure
          /\ UNCHANGED file
       \/ /\ mode = "Get"
          /\ ShouldCopy(response)
          /\ \E n \in 0..(Len(response.body) - 1) :
                file' = [file EXCEPT !.content = SubSeq(response.body, 1, n)]
          /\ result' = Err("io::Error", "copy_to")
          /\ pc' = OnTransferFailure
       \/ /\ mode = "Get" => ShouldCopy(response)
          /\ file' = IF mode = "Get"
                     THEN [file EXCEPT !.content = response.body]
                     ELSE file
          /\ IF IsSuccess(response.status)
             THEN result' = Ok(<<>>) /\ pc' = "exit"
             ELSE /\ result' = ErrStatus("TransferError", "Error transferring file",
                                         response.status)
                  /\ pc' = OnTransferFailure
    /\ UNCHANGED <<creds, url, mode, retries, now, memo, discovery_calls,
                   resolves, info, cred, origin_url, file_ops, transfer_calls,
                   response, exit_code>>

\* main: match run() { Ok(_) => ExitCode::SUCCESS, Err(e) => ExitCode::FAILURE }
Exit ==
    /\ pc = "exit"
    /\ exit_code' = IF result.ok THEN EXIT_SUCCESS ELSE EXIT_FAILURE
    /\ pc' = "done"
    /\ UNCHANGED <<creds, url, mode, retries, now, memo, discovery_calls,
                   resolves, info, cred, origin_url, file, file_ops,
                   transfer_calls, response, result>>

\* A panic (expect / panic! in get_director_info) is caught by nothing: run
\* never returns and the runtime ends the process
PanicExit ==
    /\ pc = "panicked"
    /\ exit_code' \in PanicExitCodes
    /\ pc' = "done"
    /\ UNCHANGED <<creds, url, mode, retries, now, memo, discovery_calls,
                   resolves, info, cred, origin_url, file, file_ops,
                   transfer_calls, response, result>>

Next ==
    \/ FromCondor
    \/ Resolve
    \/ SelectCredential
    \/ RewriteUrl
    \/ Send
    \/ Validate
    \/ Exit
    \/ PanicExit

Spec == Init /\ [][Next]_vars

---------------------------------------------------------------------------
(* A process that resolves several urls: PelicanInfo::from_url called      *)
(* again and again, as a caller of the module may.                         *)

InitResolve ==
    /\ pc = "idle"
    /\ creds = <<>>
    /\ url = <<>>
    /\ mode = "Get"
    /\ retries = 1
    /\ now = -1
    /\ memo = <<>>
    /\ discovery_calls = <<>>
    /\ resolves = <<>>
    /\ info = NoResult
    /\ cred = NoResult
    /\ origin_url = NoResult
    /\ file = NoFile
    /\ file_ops = {}
    /\ transfer_calls = 0
    /\ response = NoResponse
    /\ result = NoResult
    /\ exit_code = -1

ResolveCall ==
    /\ pc = "idle"
    /\ Len(resolves) < MaxResolves
    /\ \E u \in RunUrls :
        /\ url' = u
        /\ FromUrl(u)
    /\ pc' = IF info'.kind = "panic" THEN "panicked" ELSE "idle"
    /\ UNCHANGED <<creds, mode, retries, now, cred, origin_url, file, file_ops,
                   transfer_calls, response, result, exit_code>>

NextResolve == ResolveCall \/ PanicExit

SpecResolve == InitResolve /\ [][NextResolve]_vars

---------------------------------------------------------------------------
(* Credential selection, as the specification words it.                    *)

Max(S) == CHOOSE x \in S : \A y \in S : y <= x

\* The request url begins with the namespace prefix
UrlUnderPrefix == info.ok /\ StartsWith(url, info.val.osdf_prefix)

\* The request path: the url after the leading namespace prefix
RequestPath == SubSeq(url, Len(info.val.osdf_prefix) + 1, Len(url))

VerbActions(verb) ==
    IF verb = "Get" THEN {"storage.read"} ELSE {"storage.create", "storage.modify"}

\* c has a scope entry action:prefix with the action among actions and the
\* prefix a string prefix of path
Covers(c, actions, path) ==
    \E j \in 1..Len(c.scope) : \E a \in actions : \E n \in 0..Len(path) :
        c.scope[j] = <<a, ":">> \o SubSeq(path, 1, n)

ValidMatching ==
    {i \in 1..Len(creds) :
        Covers(creds[i], VerbActions(mode), RequestPath) /\ creds[i].expires_at > now}

ExpiredMatching ==
    {i \in 1..Len(creds) :
        Covers(creds[i], VerbActions(mode), RequestPath) /\ creds[i].expires_at <= now}

SelectReturned == pc = "select_returned" /\ UrlUnderPrefix

\* C1: whenever some credential has a matching scope entry and expires_at >
\* now, get_correct_cred succeeds and returns the first such credential in
\* store order, also when expired matching credentials precede it.
C1_FirstValidMatch ==
    (SelectReturned /\ ValidMatching # {})
        => (cred.ok /\ cred.val = Min(ValidMatching))

\* An expired matching credential comes first and the valid one after it
\* was returned.
C1_Witness ==
    /\ SelectReturned
    /\ ValidMatching # {}
    /\ ExpiredMatching # {}
    /\ Min(ExpiredMatching) < Min(ValidMatching)
    /\ cred.ok
    /\ cred.val = Min(ValidMatching)

\* C2: with no non-expired match, the last expired matching credential
\* (expires_at <= now) in store order is returned; with no match at all the
\* selection fails with CredentialsError "No matching credentials for url".
C2_ExpiredFallback ==
    (SelectReturned /\ ValidMatching = {})
        => IF ExpiredMatching # {}
           THEN cred.ok /\ cred.val = Max(ExpiredMatching)
           ELSE /\ ~cred.ok
                /\ cred.kind = "CredentialsError"
                /\ cred.msg = "No matching credentials for url"

\* Two expired matches, one of them expiring exactly now; the later one
\* was returned.
C2_Witness ==
    /\ SelectReturned
    /\ ValidMatching = {}
    /\ Cardinality(ExpiredMatching) >= 2
    /\ \E i \in ExpiredMatching : creds[i].expires_at = now
    /\ cred.ok
    /\ cred.val = Max(ExpiredMatching)
    /\ cred.val # Min(ExpiredMatching)

\* Some credential covers the path for a Get and none covers it for a Put
OnlyReadCovers ==
    /\ \E i \in 1..Len(creds) : Covers(creds[i], VerbActions("Get"), RequestPath)
    /\ \A i \in 1..Len(creds) : ~Covers(creds[i], VerbActions("Put"), RequestPath)

\* C3: a returned credential, valid or expired, has a scope entry whose
\* action is among the verb's actions and whose prefix the request path
\* starts with; a store that covers a path with storage.read only
\* satisfies a Get on it and fails a Put on it.
C3_ReturnedCredMatches ==
    SelectReturned =>
        /\ cred.ok => Covers(creds[cred.val], VerbActions(mode), RequestPath)
        /\ OnlyReadCovers =>
              /\ mode = "Get" => cred.ok
              /\ mode = "Put" => (~cred.ok /\ cred.kind = "CredentialsError")

\* A Put was refused on a path the store covers with storage.read only.
C3_Witness ==
    /\ SelectReturned
    /\ OnlyReadCovers
    /\ mode = "Put"
    /\ ~cred.ok

---------------------------------------------------------------------------
(* The run, as the specification words it.                                 *)

SelectFailed == cred.kind # "none" /\ ~cred.ok

\* C4: no File::create / File::open and no GET / PUT to an origin happens
\* before get_correct_cred has succeeded; when it fails, run ends with
\* that error, the local file as it was and no transfer request sent.
C4_SelectBeforeSideEffects ==
    /\ (file_ops # {} \/ transfer_calls > 0) => cred.ok
    /\ SelectFailed =>
          /\ pc \in {"exit", "done"}
          /\ result.kind = cred.kind
          /\ result.msg = cred.msg
          /\ file \in InitialFiles
          /\ file_ops = {}
          /\ transfer_calls = 0

\* The process ended on a failed selection with the file never touched.
C4_Witness ==
    /\ pc = "done"
    /\ SelectFailed
    /\ cred.msg = "No matching credentials for url"
    /\ result.kind = "CredentialsError"
    /\ file.exists
    /\ file_ops = {}
    /\ transfer_calls = 0

GetAnswered == mode = "Get" /\ response.status # 0

\* C5: on a Get, bytes of the response body are in the local file only if
\* the status is a success; on any other status execute fails with a
\* TransferError carrying the status and the file holds none of the body.
C5_BodyOnlyOnSuccess ==
    GetAnswered =>
        /\ file.content # <<>> => IsSuccess(response.status)
        /\ (~IsSuccess(response.status) /\ pc \in {"exit", "done"}) =>
              /\ ~result.ok
              /\ result.kind = "TransferError"
              /\ result.status = response.status
              /\ file.content = <<>>

\* A Get answered 404 ended in a TransferError with the file left empty.
C5_Witness ==
    /\ GetAnswered
    /\ response.status = 404
    /\ response.body # <<>>
    /\ pc = "done"
    /\ result.kind = "TransferError"
    /\ result.status = 404
    /\ file.exists
    /\ file.content = <<>>

\* C6: at most one discovery GET is sent per discovery path; a resolution of
\* a cached path sends nothing and answers from the cached headers; a cache
\* entry is never removed or changed.
C6_OneDiscoveryPerPath ==
    /\ [](\A p \in DOMAIN discovery_calls : discovery_calls[p] <= 1)
    /\ [][\A p \in DOMAIN memo : p \in DOMAIN memo' /\ memo'[p] = memo[p]]_vars
    /\ [][(Len(resolves') > Len(resolves)
             /\ resolves'[Len(resolves')] \in DOMAIN memo)
            => /\ discovery_calls' = discovery_calls
               /\ info' = InfoFromHeaders(memo[resolves'[Len(resolves')]])]_vars

\* The same path was resolved twice and one GET was sent for it.
C6_Witness ==
    /\ pc = "idle"
    /\ info.ok
    /\ \E i, j \in 1..Len(resolves) :
        /\ i < j
        /\ resolves[i] = resolves[j]
        /\ Count(discovery_calls, resolves[i]) = 1

\* The order of the steps of a run
Stage(p) ==
    CASE p = "from_condor" -> 0
      [] p = "resolve" -> 1
      [] p = "select" -> 2
      [] p = "rewrite" -> 3
      [] p = "send" -> 4
      [] p = "validate" -> 5
      [] p \in {"exit", "panicked"} -> 6
      [] p = "done" -> 7

\* C7: every step of a run moves to a later stage of the pipeline, so no
\* stage is entered twice; whatever the retry count, at most one GET / PUT
\* is sent; and a step that fails returns from run at once.
C7_LinearNoRetry ==
    /\ [][Stage(pc') > Stage(pc)]_vars
    /\ [](transfer_calls <= 1)
    /\ [][(result.kind = "none" /\ result'.kind # "none") => pc' = "exit"]_vars

\* With a retry count of two or more a failed transfer ended the run after
\* its only request.
C7_Witness ==
    /\ retries >= 2
    /\ pc = "done"
    /\ response.status = 404
    /\ result.kind = "TransferError"
    /\ transfer_calls = 1

\* C8: the process exits with 0 when the transfer succeeded and with 1 on
\* every failure, a discovery status >= 400 included.
C8_ExitZeroOrOne ==
    pc = "done" =>
        \/ result.ok /\ exit_code = EXIT_SUCCESS
        \/ ~result.ok /\ exit_code = EXIT_FAILURE

\* C9: from_url fails with "url is not an OSDF url", having sent no
\* discovery request, for every url that does not begin with osdf://.
C9_RejectsUrlNotBeginningWithScheme ==
    (info.kind # "none" /\ ~StartsWith(url, OSDF_URL_PREFIX)) =>
        /\ ~info.ok
        /\ info.kind = "PelicanError"
        /\ info.msg = "url is not an OSDF url"
        /\ DOMAIN discovery_calls = {}

\* C10: get_correct_cred and get_origin_url fail with "url does not match
\* OSDF prefix" whenever the url does not begin with the namespace prefix,
\* and the suffix of a rewritten url is the url without that leading prefix.
C10_PrefixIsLeading ==
    /\ (cred.kind # "none" /\ ~StartsWith(url, info.val.osdf_prefix)) =>
          /\ ~cred.ok
          /\ cred.msg = "url does not match OSDF prefix"
    /\ (origin_url.kind # "none" /\ ~StartsWith(url, info.val.osdf_prefix)) =>
          /\ ~origin_url.ok
          /\ origin_url.msg = "url does not match OSDF prefix"
    /\ origin_url.ok => url = info.val.osdf_prefix \o origin_url.val.suffix

---------------------------------------------------------------------------
(* PelicanInfo::from_url on the headers of a director response, and        *)
(* choose_origin on the PelicanInfo it builds.  The response is in the     *)
(* cache of get_director_info, as after a first resolution of the url.     *)

\* The strings of at most n tokens of A
Strings(A, n) == UNION {[1..k -> A] : k \in 0..n}

\* Tokens of a Link value ("u": a run of url characters) and of an
\* x-pelican-namespace value ("k": a key, "n": a namespace path)
LinkAlphabet == {"<", ">", ",", "u"}
NamespaceAlphabet == {"k", "=", "n", ","}

GoodLink == Header(<<"<">> \o ORIGIN \o <<">">>)
GoodNamespace == Header(<<"namespace", "=", "/", "n", ",", "k", "=", "v">>)

\* Every namespace value beside a Link that parses, and every Link value
\* beside a namespace that parses
ParsedHeaders ==
    [link : {GoodLink},
     ns : {Header(v) : v \in Strings(NamespaceAlphabet, MaxHeaderLen)} \cup {NoHeader}]
    \cup
    [link : {Header(v) : v \in Strings(LinkAlphabet, MaxHeaderLen)} \cup {NoHeader},
     ns : {GoodNamespace}]

HeaderPath == <<"/", "n", "/", "a">>
HeaderUrl == OSDF_URL_PREFIX \o HeaderPath

InitHeaders ==
    /\ pc = "idle"
    /\ creds = <<>>
    /\ url = HeaderUrl
    /\ mode = "Get"
    /\ retries = 1
    /\ now = -1
    /\ \E h \in ParsedHeaders : memo = Remember(<<>>, HeaderPath, h)
    /\ discovery_calls = Remember(<<>>, HeaderPath, 1)
    /\ resolves = <<HeaderPath>>
    /\ info = NoResult
    /\ cred = NoResult
    /\ origin_url = NoResult
    /\ file = NoFile
    /\ file_ops = {}
    /\ transfer_calls = 0
    /\ response = NoResponse
    /\ result = NoResult
    /\ exit_code = -1

\* PelicanInfo::from_url(url)
ResolveCached ==
    /\ pc = "idle"
    /\ FromUrl(url)
    /\ pc' = IF info'.ok THEN "resolved" ELSE "failed"
    /\ UNCHANGED <<creds, url, mode, retries, now, cred, origin_url, file,
                   file_ops, transfer_calls, response, result, exit_code>>

\* info.choose_origin()
ChooseCall ==
    /\ pc = "resolved"
    /\ IF ChooseOrigin(info.val) = {}
       THEN origin_url' = Err("PelicanError", "No origins available")
       ELSE \E o \in ChooseOrigin(info.val) : origin_url' = Ok(o)
    /\ pc' = "chosen"
    /\ UNCHANGED <<creds, url, mode, retries, now, memo, discovery_calls,
                   resolves, info, cred, file, file_ops, transfer_calls,
                   response, result, exit_code>>

NextHeaders == ResolveCached \/ ChooseCall

SpecHeaders == InitHeaders /\ [][NextHeaders]_vars

---------------------------------------------------------------------------
(* Header parsing, as the specification words it.                          *)

\* The headers from_url parsed, once it has returned
HeadersParsed == pc \in {"resolved", "failed", "chosen"}
LinkValue == memo[HeaderPath].link.value
NamespaceValue == memo[HeaderPath].ns.value

\* The positions of token c in string v
Positions(v, c) == {i \in 1..Len(v) : v[i] = c}

\* The first comma-separated entry of v
FirstEntry(v) ==
    IF Positions(v, ",") = {} THEN v
    ELSE SubSeq(v, 1, Min(Positions(v, ",")) - 1)

\* The text of entry e after its first '='
AfterEq(e) == SubSeq(e, Min(Positions(e, "=")) + 1, Len(e))

\* v is key=namespace-path followed by zero or more ,entries
IsKeyValueList(v) ==
    LET e == FirstEntry(v)
    IN  /\ Positions(e, "=") # {}
        /\ Min(Positions(e, "=")) > 1
        /\ AfterEq(e) # <<>>

NamespaceCase ==
    /\ HeadersParsed
    /\ memo[HeaderPath].link = GoodLink
    /\ memo[HeaderPath].ns.present

\* C11: for a header value key=namespace-path followed by zero or more
\* further entries, the namespace is the namespace-path of the first entry
\* and osdf_prefix is osdf:// followed by it; the parse fails only when the
\* first entry has no '='.
C11_NamespaceOfFirstEntry ==
    NamespaceCase =>
        /\ IsKeyValueList(NamespaceValue) =>
              /\ info.ok
              /\ info.val.osdf_prefix
                    = OSDF_URL_PREFIX \o AfterEq(FirstEntry(NamespaceValue))
        /\ ~info.ok => Positions(FirstEntry(NamespaceValue), "=") = {}

\* The k-th smallest element of the set S of numbers
Nth(S, k) == CHOOSE x \in S : Cardinality({y \in S : y < x}) = k - 1

\* The comma-delimited segments of v: one more than it has commas
SegmentCount(v) == Cardinality(Positions(v, ",")) + 1
Segment(v, k) ==
    LET commas == Positions(v, ",")
        first == IF k = 1 THEN 1 ELSE Nth(commas, k - 1) + 1
        last == IF k = SegmentCount(v) THEN Len(v) ELSE Nth(commas, k) - 1
    IN  SubSeq(v, first, last)

\* The '>' of segment g that follow its first '<'
Closers(g) ==
    IF Positions(g, "<") = {} THEN {}
    ELSE {j \in Positions(g, ">") : j > Min(Positions(g, "<"))}

\* The text between the first '<' of g and the first '>' after it
Delimited(g) == SubSeq(g, Min(Positions(g, "<")) + 1, Min(Closers(g)) - 1)

LinkCase ==
    /\ HeadersParsed
    /\ memo[HeaderPath].ns = GoodNamespace
    /\ memo[HeaderPath].link.present

\* C13: a Link value parses to one origin per comma-delimited segment, in
\* header order, each the text between the segment's first '<' and the
\* first '>' after it; a segment without them fails the whole parse with
\* "Error parsing link header"; so a PelicanInfo that was built has origins,
\* and choose_origin returns one of them.
C13_OneOriginPerSegment ==
    LinkCase =>
        /\ IF \A k \in 1..SegmentCount(LinkValue) : Closers(Segment(LinkValue, k)) # {}
           THEN /\ info.ok
                /\ Len(info.val.origins) = SegmentCount(LinkValue)
                /\ \A k \in 1..SegmentCount(LinkValue) :
                      info.val.origins[k] = Delimited(Segment(LinkValue, k))
           ELSE /\ ~info.ok
                /\ info.kind = "PelicanError"
                /\ info.msg = "Error parsing link header"
        /\ info.ok => info.val.origins # <<>>
        /\ pc = "chosen" =>
              /\ origin_url.ok
              /\ \E k \in 1..Len(info.val.origins) :
                    origin_url.val = info.val.origins[k]

\* A value of two segments gave two different origins in header order, and
\* choose_origin returned the second.
C13_Witness ==
    /\ LinkCase
    /\ pc = "chosen"
    /\ SegmentCount(LinkValue) = 2
    /\ Len(info.val.origins) = 2
    /\ info.val.origins[1] = <<"u">>
    /\ info.val.origins[2] = <<>>
    /\ origin_url.ok
    /\ origin_url.val = info.val.origins[2]

---------------------------------------------------------------------------
(* get_origin_url on its own, as its tests call it: a PelicanInfo whose    *)
(* origins are one base without and with a trailing '/'.                   *)

\* Origin bases: a host alone, and a host with a path
RewriteBases == {ORIGIN, ORIGIN \o <<"/", "p">>}

\* The request urls: the namespace prefix and any suffix after it
RewriteUrls == {SelectPrefix \o x : x \in Strings({"/", "a", "b"}, MaxSuffixLen)}

InitRewrite ==
    /\ pc = "rewrite_call"
    /\ creds = <<>>
    /\ url \in RewriteUrls
    /\ mode = "Get"
    /\ retries = 1
    /\ now = -1
    /\ memo = <<>>
    /\ discovery_calls = <<>>
    /\ resolves = <<>>
    /\ \E base \in RewriteBases :
          info = Ok([origins |-> <<base, base \o <<"/">> >>, osdf_prefix |-> SelectPrefix])
    /\ cred = NoResult
    /\ origin_url = NoResult
    /\ file = NoFile
    /\ file_ops = {}
    /\ transfer_calls = 0
    /\ response = NoResponse
    /\ result = NoResult
    /\ exit_code = -1

\* transfer.get_origin_url(&info)
RewriteCall ==
    /\ pc = "rewrite_call"
    /\ IF ChooseOrigin(info.val) = {}
       THEN origin_url' = Err("PelicanError", "No origins available")
       ELSE \E o \in ChooseOrigin(info.val) :
                origin_url' = GetOriginUrl(url, info.val.osdf_prefix, o)
    /\ pc' = "rewrite_returned"
    /\ UNCHANGED <<creds, url, mode, retries, now, memo, discovery_calls,
                   resolves, info, cred, file, file_ops, transfer_calls,
                   response, result, exit_code>>

NextRewrite == RewriteCall

SpecRewrite == InitRewrite /\ [][NextRewrite]_vars

---------------------------------------------------------------------------
(* The rewriting, as the specification words it.                           *)

\* The final url get_origin_url gives for the k-th origin
FinalUrl(k) == GetOriginUrl(url, info.val.osdf_prefix, info.val.origins[k])

\* The origin base without its trailing '/' followed by the suffix (by
\* "/" and the suffix when the suffix does not begin with '/'): no slash
\* doubled, no segment dropped
Concatenated ==
    LET suffix == SubSeq(url, Len(info.val.osdf_prefix) + 1, Len(url))
    IN  IF suffix # <<>> /\ Head(suffix) = "/"
        THEN info.val.origins[1] \o suffix
        ELSE info.val.origins[1] \o <<"/">> \o suffix

\* C12: against a base ending in '/' and against the same base without it
\* the rewriting gives the identical final url for the same suffix, with
\* no double slash and no path segment dropped.
C12_TrailingSlashIrrelevant ==
    pc = "rewrite_returned" =>
        /\ origin_url.ok
        /\ FinalUrl(1).ok
        /\ FinalUrl(2).ok
        /\ FinalUrl(1).val.final_url = FinalUrl(2).val.final_url
        /\ origin_url.val.final_url = Concatenated

====
